---- MODULE Spec2Model ----
(***************************************************************************)
(* Model of the Swagger/OpenAPI template generator:                        *)
(*   src/src/utils/swaggerUtils.js    schema walker, path composer         *)
(*   src/src/services/swaggerService.js  fetch + per-endpoint processing   *)
(*                                                                         *)
(* JavaScript strings that the code takes apart or puts together (paths,   *)
(* property keys, $ref pointers, reference names, URL pieces) are          *)
(* sequences of one-character strings, so that concatenation, split and    *)
(* the placeholder regex are computed and not assumed.  Strings that are   *)
(* only compared or passed through (type, format, enum entries, HTTP       *)
(* verbs, error messages) are TLA+ strings.                                *)
(*                                                                         *)
(* A JavaScript object is a record whose DOMAIN holds exactly the fields   *)
(* that are present; a field whose value is undefined is left out.  A      *)
(* mapping whose iteration order matters (properties, paths, content) is   *)
(* a sequence of <<key, value>> pairs with distinct keys, in insertion     *)
(* order, which is the order Object.entries yields.                        *)
(***************************************************************************)
EXTENDS Integers, Sequences, FiniteSets, TLC

VARIABLES
    pc,                 \* position of the run being modelled
    clock,              \* what new Date() reads
    \* SpecWalk: one call of createSchemaBasedRequestBody
    schema,             \* the request-body schema handed to the walker
    definitions,        \* the DefinitionsTable (name -> schema)
    result,             \* what the call returned
    \* SpecPath: one call of createPathWithParams
    segments,           \* the pieces the path template was written from
    pathTemplate,       \* the path template
    parameters,         \* the declared parameters
    fullPath,           \* what the call returned
    \* SpecProc: calls of processSwaggerData(swaggerUrl, userId, total_requests, threads)
    request,            \* the arguments of the call
    document,           \* what the documentation URL serves
    swaggerData,        \* what getSwaggerData returned
    baseUrl,            \* what extractBaseUrl returned
    processedEndpoints, \* the list the loop fills
    response,           \* what the call returned or threw
    database,           \* the rows of api_endpoints
    liveSet,            \* the visited Set the latest walk left on the heap
    walks,              \* observer: the walks of this call, one per walked endpoint
    runs,               \* calls started so far
    \* SpecUrl: one call of extractBaseUrl (swaggerUtils.js)
    swaggerUrl,         \* the documentation URL handed to it
    resolved,           \* what the call returned
    \* SpecSelect: process(document, userContext, options) of the specification
    options,            \* selectedIds and token
    securityContext,    \* the header SecurityResolver derived for the document
    selected,           \* the numbered endpoints the call handles
    \* SpecRepeat: two calls of createSchemaBasedRequestBody with the same arguments
    again,              \* what the second call returned
    \* SpecSave: one call of processSwaggerData with the save as a request in flight
    saves               \* history: the fetch and the save requests issued and settled

walkVars == <<schema, definitions, result>>
pathVars == <<segments, pathTemplate, parameters, fullPath>>
procVars == <<request, document, swaggerData, baseUrl, processedEndpoints, response,
              database, liveSet, walks, runs>>
urlVars == <<swaggerUrl, resolved>>
\* the variables of the specifications of single operations added to the three above
selVars == <<options, securityContext, selected>>
auxVars == <<urlVars, selVars, again, saves>>
vars == <<pc, clock, walkVars, pathVars, procVars, auxVars>>

\* the value of a variable the specification at hand does not use
Unused == [unused |-> TRUE]

ProcUnused ==
    /\ request = Unused /\ document = Unused /\ swaggerData = Unused
    /\ baseUrl = Unused /\ processedEndpoints = Unused /\ response = Unused
    /\ database = Unused /\ liveSet = Unused /\ walks = Unused /\ runs = Unused

UrlUnused == swaggerUrl = Unused /\ resolved = Unused

SelUnused == options = Unused /\ securityContext = Unused /\ selected = Unused

AuxUnused == UrlUnused /\ SelUnused /\ again = Unused /\ saves = Unused

(***************************************************************************)
(* Bounds of the model.                                                    *)
(***************************************************************************)
\* nesting depth of the generated schemas below the root
MaxDepth == 2
\* pieces of a generated path template
MaxSegments == 3
\* declared parameters of a generated endpoint
MaxParams == 2
\* paths of a generated document
MaxPaths == 2
\* calls of processSwaggerData in one behaviour
MaxRuns == 2
\* frames the JavaScript call stack holds before RangeError is thrown
MaxStack == 16

(***************************************************************************)
(* String helpers (strings as sequences of characters).                    *)
(***************************************************************************)
Range(s) == {s[i] : i \in 1..Len(s)}

Last(s) == s[Len(s)]

RECURSIVE SplitFrom(_, _, _, _, _)
SplitFrom(s, sep, i, cur, out) ==
    IF i > Len(s) THEN Append(out, cur)
    ELSE IF s[i] = sep THEN SplitFrom(s, sep, i + 1, <<>>, Append(out, cur))
    ELSE SplitFrom(s, sep, i + 1, Append(cur, s[i]), out)

\* String.prototype.split with a one-character separator
Split(s, sep) == SplitFrom(s, sep, 1, <<>>, <<>>)

(***************************************************************************)
(* JavaScript values.                                                      *)
(***************************************************************************)
\* the value null
Null == [jsnull |-> TRUE]

IsNull(x) == "jsnull" \in DOMAIN x

Has(obj, f) == f \in DOMAIN obj

\* obj with field f set to val (obj.f = val, or { ...obj, f: val })
With(obj, f, val) == [x \in DOMAIN obj \cup {f} |-> IF x = f THEN val ELSE obj[x]]

\* { ...a, ...b } restricted to the fields fs of b that are defined
WithDefined(a, b, fs) ==
    [x \in DOMAIN a \cup (fs \cap DOMAIN b) |-> IF x \in DOMAIN a THEN a[x] ELSE b[x]]

\* JSON values synthesized by the walker
Map(entries) == [k |-> "map", entries |-> entries]
Arr(elems) == [k |-> "seq", elems |-> elems]
Str(s) == [k |-> "str", s |-> s]
StrChars(cs) == [k |-> "str", chars |-> cs]
IsoDateTime(t) == [k |-> "str", iso |-> t]
IsoDate(t) == [k |-> "str", isoDate |-> t]
Num(n) == [k |-> "num", n |-> n]
Bool(b) == [k |-> "bool", b |-> b]

DummyReferenceKey == <<"d","u","m","m","y","_","r","e","f","e","r","e","n","c","e">>

\* { dummy_reference: refName }
SentinelValue(refName) == Map(<< <<DummyReferenceKey, StrChars(refName)>> >>)

(***************************************************************************)
(* createDummyDataFromSchema (swaggerUtils.js 4-163).                      *)
(*                                                                         *)
(* env carries what the recursion shares: the visited Set (one object,     *)
(* passed by reference), the clock, and two observers the code does not    *)
(* have: calls (number of invocations so far) and log (one entry per       *)
(* $ref node that returned).  A call returns                               *)
(*   [raised |-> "none", dummyData, fieldInfo, env]   or                   *)
(*   [raised |-> <error name>, env]  when an exception propagates.         *)
(***************************************************************************)
Return(dummyData, fieldInfo, env) ==
    [raised |-> "none", dummyData |-> dummyData, fieldInfo |-> fieldInfo, env |-> env]

Throw(err, env) == [raised |-> err, env |-> env]

\* schema.$ref.split("/").pop()
RefName(ref) == Last(Split(ref, "/"))

VisitedHasNever(visited, refName) == FALSE

\* visited.has(refName)
VisitedHas(visited, refName) == refName \in visited

VisitedAddNothing(visited, refName) == visited

\* visited.add(refName)
VisitedAdd(visited, refName) == visited \cup {refName}

\* definitions[refName] is truthy
Found(defs, refName) == refName \in DOMAIN defs /\ ~IsNull(defs[refName])

\* schema.required || []
RequiredOf(s) ==
    IF Has(s, "required") /\ ~(s.required.tag = "bool" /\ s.required.b = FALSE)
    THEN s.required
    ELSE [tag |-> "list", keys |-> <<>>]

\* required.includes exists (arrays and strings have it, booleans do not)
HasIncludes(required) == required.tag = "list"

\* required.includes(key)
Includes(required, key) == key \in Range(required.keys)

PropPathAlwaysDotted(path, key) == path \o <<".">> \o key

\* path ? `${path}.${key}` : key
PropPath(path, key) == IF path # <<>> THEN path \o <<".">> \o key ELSE key

ItemsPathNoBrackets(path) == path

\* path ? `${path}[]` : "[]"
ItemsPath(path) == IF path # <<>> THEN path \o <<"[", "]">> ELSE <<"[", "]">>

\* the record of one $ref node that returned (observer, not program state):
\* its name, the number of the invocation (invocations are numbered in the order
\* they are entered), the visited Set as the call found it and as it left it, and
\* what the call returned
LogRef(r, refName, entered) ==
    [r EXCEPT !.env.log = Append(@,
        [name |-> refName, seq |-> entered.calls,
         visitedBefore |-> entered.visited,
         visitedAfter |-> r.env.visited,
         dummyData |-> r.dummyData, fieldInfo |-> r.fieldInfo])]

StringValueEnumFirst(s, now) ==
    IF Has(s, "enum") /\ Len(s.enum) > 0 THEN Str(s.enum[1])
    ELSE IF Has(s, "format") /\ s.format = "date-time" THEN IsoDateTime(now)
    ELSE IF Has(s, "format") /\ s.format = "date" THEN IsoDate(now)
    ELSE IF Has(s, "format") /\ s.format = "email" THEN Str("user@example.com")
    ELSE IF Has(s, "format") /\ s.format = "uuid"
        THEN Str("00000000-0000-0000-0000-000000000000")
    ELSE Str("dummy_string")

\* the value of a string node (lines 107-113)
StringValue(s, now) ==
    LET format == IF Has(s, "format") THEN s.format ELSE "undefined" IN
    IF format = "date-time" THEN IsoDateTime(now)
    ELSE IF format = "date" THEN IsoDate(now)
    ELSE IF format = "email" THEN Str("user@example.com")
    ELSE IF format = "uuid" THEN Str("00000000-0000-0000-0000-000000000000")
    ELSE IF Has(s, "enum") /\ Len(s.enum) > 0 THEN Str(s.enum[1])
    ELSE Str("dummy_string")

RECURSIVE createDummyDataFromSchema(_, _, _, _, _)
RECURSIVE WalkProperties(_, _, _, _, _, _, _, _, _)

\* the for-loop of the object branch, from property i on
WalkProperties(properties, i, required, defs, env, path, depth, dummyData, props) ==
    IF i > Len(properties)
    THEN Return(Map(dummyData),
                [type |-> "object", required |-> FALSE, path |-> path,
                 properties |-> props],
                env)
    ELSE
        LET key == properties[i][1]
            propSchema == properties[i][2]
        IN  IF ~HasIncludes(required) THEN Throw("TypeError", env)
            ELSE
                LET isRequired == Includes(required, key)
                    newPath == PropPath(path, key)
                    r == createDummyDataFromSchema(propSchema, defs, env, newPath,
                                                   depth + 1)
                IN  IF r.raised # "none" THEN r
                    ELSE WalkProperties(properties, i + 1, required, defs, r.env,
                            path, depth,
                            Append(dummyData, <<key, r.dummyData>>),
                            Append(props,
                                   <<key, With(r.fieldInfo, "required", isRequired)>>))

createDummyDataFromSchema(s, defs, env0, path, depth) ==
    LET env == [env0 EXCEPT !.calls = @ + 1] IN
    IF depth > MaxStack THEN Throw("RangeError", env)
    ELSE IF IsNull(s) THEN Throw("TypeError", env)
    ELSE IF Has(s, "ref") /\ s.ref # <<>> THEN
        LET refName == RefName(s.ref) IN
        IF VisitedHas(env.visited, refName)
        THEN LogRef(Return(SentinelValue(refName),
                           [type |-> "reference", required |-> FALSE, path |-> path],
                           env),
                    refName, env)
        ELSE
            LET env1 == [env EXCEPT !.visited = VisitedAdd(@, refName)] IN
            IF Found(defs, refName)
            THEN LET r == createDummyDataFromSchema(defs[refName], defs, env1, path,
                                                    depth + 1)
                 IN  IF r.raised # "none" THEN r
                     ELSE LogRef([r EXCEPT !.fieldInfo =
                                     With(@, "referenceName", refName)],
                                 refName, env)
            ELSE LogRef(Return(SentinelValue(refName),
                               [type |-> "reference", referenceName |-> refName,
                                required |-> FALSE, path |-> path],
                               env1),
                        refName, env)
    ELSE
        LET type == IF Has(s, "type") THEN s.type ELSE "undefined" IN
        CASE type = "object" ->
                WalkProperties(IF Has(s, "properties") THEN s.properties ELSE <<>>,
                               1, RequiredOf(s), defs, env, path, depth, <<>>, <<>>)
          [] type = "array" ->
                IF Has(s, "items") /\ ~IsNull(s.items)
                THEN LET r == createDummyDataFromSchema(s.items, defs, env,
                                                        ItemsPath(path), depth + 1)
                     IN  IF r.raised # "none" THEN r
                         ELSE Return(Arr(<<r.dummyData>>),
                                     [type |-> "array", required |-> FALSE,
                                      path |-> path, items |-> r.fieldInfo],
                                     r.env)
                ELSE Return(Arr(<<Str("dummy_array_item")>>),
                            [type |-> "array", required |-> FALSE, path |-> path,
                             items |-> [type |-> "unknown"]],
                            env)
          [] type = "string" ->
                Return(StringValue(s, env.now),
                           WithDefined(
                               [type |-> "string",
                                format |-> IF Has(s, "format") /\ s.format # ""
                                           THEN s.format ELSE "text",
                                required |-> FALSE, path |-> path],
                               s, {"enum"}),
                           env)
          [] type \in {"integer", "number"} ->
                Return(Num(0),
                       WithDefined([type |-> type, required |-> FALSE, path |-> path],
                                   s, {"format", "minimum", "maximum"}),
                       env)
          [] type = "boolean" ->
                Return(Bool(FALSE),
                       [type |-> "boolean", required |-> FALSE, path |-> path],
                       env)
          [] OTHER ->
                Return(Str("dummy_value"),
                       [type |-> IF Has(s, "type") THEN s.type ELSE "unknown",
                        required |-> FALSE, path |-> path],
                       env)

ReusedSet(live) == live

\* new Set(): the default of parameter visited (line 7), evaluated anew at every
\* call that omits the argument; live is the Set an earlier walk left behind
NewSet(live) == {}

\* createSchemaBasedRequestBody(schema, definitions): the walker is called without
\* visited and path, so both take their defaults, new Set() and ""
createSchemaBasedRequestBody(s, defs, now, live) ==
    createDummyDataFromSchema(s, defs,
        [visited |-> NewSet(live), calls |-> 0, log |-> <<>>, now |-> now], <<>>, 1)

(***************************************************************************)
(* createPathWithParams (swaggerUtils.js 188-203).                         *)
(***************************************************************************)
DummyPrefix == <<"d","u","m","m","y","_">>
DummyValueSuffix == <<"=","d","u","m","m","y","_","v","a","l","u","e">>

\* the first position from i on where s holds c, or 0
RECURSIVE IndexFrom(_, _, _)
IndexFrom(s, c, i) ==
    IF i > Len(s) THEN 0 ELSE IF s[i] = c THEN i ELSE IndexFrom(s, c, i + 1)

\* path.replace(/{([^}]+)}/g, (_, param) => `dummy_${param}`), from position i on:
\* a match starts at a "{" whose next "}" lies at least one character further
RECURSIVE ReplacePlaceholders(_, _)
ReplacePlaceholders(s, i) ==
    IF i > Len(s) THEN <<>>
    ELSE LET close == IF s[i] = "{" THEN IndexFrom(s, "}", i + 1) ELSE 0
         IN  IF close > i + 1
             THEN DummyPrefix \o SubSeq(s, i + 1, close - 1)
                      \o ReplacePlaceholders(s, close + 1)
             ELSE <<s[i]>> \o ReplacePlaceholders(s, i + 1)

IsQueryOrPathParam(param) == Has(param, "in") /\ param.in \in {"query", "path"}

\* param.in === "query"
IsQueryParam(param) == Has(param, "in") /\ param.in = "query"

\* Array.prototype.join(sep), from element i on
RECURSIVE JoinFrom(_, _, _)
JoinFrom(strs, sep, i) ==
    IF i > Len(strs) THEN <<>>
    ELSE IF i = Len(strs) THEN strs[i]
    ELSE strs[i] \o sep \o JoinFrom(strs, sep, i + 1)

Join(strs, sep) == JoinFrom(strs, sep, 1)

createPathWithParams(p, params) ==
    LET replaced == ReplacePlaceholders(p, 1)
        queryParams == SelectSeq(params, IsQueryParam)
        pairs == [i \in 1..Len(queryParams) |-> queryParams[i].name \o DummyValueSuffix]
    IN  IF Len(queryParams) > 0
        THEN replaced \o <<"?">> \o Join(pairs, <<"&">>)
        ELSE replaced

(***************************************************************************)
(* Inputs: schemas and definition tables.                                  *)
(***************************************************************************)
A == <<"A">>
B == <<"B">>
\* a name no table defines
C == <<"C">>

Ka == <<"a">>
Kb == <<"b">>
\* a key that holds the path separator
Kab == <<"a", ".", "b">>
\* the empty key
Kempty == <<>>
Kaddresses == <<"a","d","d","r","e","s","s","e","s">>
Kcity == <<"c","i","t","y">>

RefPrefix == <<"#","/","d","e","f","i","n","i","t","i","o","n","s","/">>

RefS(name) == [ref |-> RefPrefix \o name]
ArrS(items) == [type |-> "array", items |-> items]
ObjS(props) == [type |-> "object", properties |-> props]
ObjR(props, required) ==
    [type |-> "object", properties |-> props, required |-> required]
ReqList(keys) == [tag |-> "list", keys |-> keys]
ReqBool(b) == [tag |-> "bool", b |-> b]

StrPlain == [type |-> "string"]
IntPlain == [type |-> "integer"]

Leaves ==
    { StrPlain,
      [type |-> "string", format |-> "uuid", enum |-> <<"x", "y">>],
      [type |-> "string", format |-> "date-time"],
      [type |-> "string", format |-> "date"],
      [type |-> "string", format |-> "email"],
      [type |-> "string", format |-> "byte", enum |-> <<"x", "y">>],
      [type |-> "string", enum |-> <<>>],
      [type |-> "string", enum |-> <<"y", "x">>],
      [type |-> "string", format |-> "email", enum |-> <<"x">>],
      [type |-> "integer", format |-> "int32", minimum |-> 1, maximum |-> 9],
      [type |-> "number"],
      [type |-> "boolean"],
      [type |-> "file"],
      [description |-> "untyped"] }

Refs == {RefS(A), RefS(B), RefS(C)}

Kids0 == {StrPlain, IntPlain, RefS(A), RefS(B)}

\* schemas nested at most d levels deep
RECURSIVE Nest(_)
Nest(d) ==
    IF d = 0 THEN Kids0
    ELSE LET sub == Nest(d - 1)
         IN  Kids0 \cup {ArrS(x) : x \in sub} \cup {ObjS(<< <<Kb, x>> >>) : x \in sub}

\* the example of the specification: addresses[].city
AddressBook == ObjS(<< <<Kaddresses, ArrS(ObjS(<< <<Kcity, StrPlain>> >>))>> >>)

RootSchemas ==
    LET kids == Nest(MaxDepth) IN
    Leaves \cup Refs
    \cup {[type |-> "array"], [type |-> "array", items |-> Null], [type |-> "object"],
          AddressBook}
    \cup {ArrS(x) : x \in kids \cup {[type |-> "array"]}}
    \cup {ObjS(<< <<k, x>> >>) : k \in {Ka, Kempty}, x \in kids \cup {Null}}
    \cup {ObjR(<< <<Ka, x>> >>, r) :
            x \in kids, r \in {ReqList(<<Ka>>), ReqList(<<Kb>>), ReqBool(TRUE)}}
    \cup {ObjS(<< <<Ka, x>>, <<k, y>> >>) :
            x \in kids, k \in {Kb, Kab}, y \in {StrPlain, RefS(A)}}
    \cup {ObjR(<< <<Ka, x>>, <<Kb, y>> >>, ReqList(<<Kb, Kab>>)) :
            x \in kids, y \in {RefS(A), [type |-> "array"]}}
    \cup {ObjR(<<>>, ReqBool(TRUE)), ObjR(<< <<Ka, StrPlain>> >>, ReqBool(FALSE))}

DefinitionsOfA ==
    { StrPlain, RefS(A), RefS(B), ObjS(<< <<Kb, RefS(A)>> >>),
      ObjS(<< <<Ka, RefS(B)>> >>), ArrS(RefS(A)) }

DefinitionsOfB ==
    { IntPlain, RefS(A), ObjS(<< <<Ka, RefS(A)>> >>), ArrS(RefS(B)) }

DefinitionTables ==
    { [n \in names |-> IF n = A THEN a ELSE b] :
        names \in SUBSET {A, B}, a \in DefinitionsOfA, b \in DefinitionsOfB }

(***************************************************************************)
(* SpecWalk: one top-level walk of a request-body schema.                  *)
(***************************************************************************)
NoResult == [raised |-> "pending"]

WalkInit ==
    /\ pc = "start"
    /\ schema \in RootSchemas
    /\ definitions \in DefinitionTables
    /\ result = NoResult
    /\ clock = 0
    /\ segments = Unused /\ pathTemplate = Unused /\ parameters = Unused /\ fullPath = Unused
    /\ ProcUnused
    /\ AuxUnused

\* createSchemaBasedRequestBody(schema, definitions) runs to completion
WalkCall ==
    /\ pc = "start"
    /\ result' = createSchemaBasedRequestBody(schema, definitions, clock, {})
    /\ pc' = "done"
    /\ UNCHANGED <<schema, definitions, clock, pathVars, procVars, auxVars>>

WalkNext == WalkCall

SpecWalk == WalkInit /\ [][WalkNext]_vars

(***************************************************************************)
(* Observers over schemas, values and descriptor trees.                    *)
(***************************************************************************)
Done == pc = "done"

Returned == Done /\ result.raised = "none"

\* the child schemas of a node, in the order the walker meets them
Children(s) ==
    IF IsNull(s) \/ Has(s, "ref") THEN <<>>
    ELSE IF Has(s, "type") /\ s.type = "object" /\ Has(s, "properties")
        THEN [i \in 1..Len(s.properties) |-> s.properties[i][2]]
    ELSE IF Has(s, "type") /\ s.type = "array" /\ Has(s, "items") THEN <<s.items>>
    ELSE <<>>

RECURSIVE SchemaSize(_)
RECURSIVE SizeFrom(_, _)
\* number of nodes of a schema
SchemaSize(s) == 1 + SizeFrom(Children(s), 1)
SizeFrom(cs, i) == IF i > Len(cs) THEN 0 ELSE SchemaSize(cs[i]) + SizeFrom(cs, i + 1)

RECURSIVE TableSize(_, _)
\* number of nodes of the definitions named in names
TableSize(defs, names) ==
    IF names = {} THEN 0
    ELSE LET n == CHOOSE x \in names : TRUE
         IN  SchemaSize(defs[n]) + TableSize(defs, names \ {n})

RECURSIVE WellFormed(_)
\* a SchemaNode as the data model describes it: no null node, required a list
WellFormed(s) ==
    /\ ~IsNull(s)
    /\ Has(s, "required") => s.required.tag = "list"
    /\ \A i \in 1..Len(Children(s)) : WellFormed(Children(s)[i])

RECURSIVE NoRef(_)
\* no node of the schema is a $ref
NoRef(s) ==
    /\ IsNull(s) \/ ~Has(s, "ref")
    /\ \A i \in 1..Len(Children(s)) : NoRef(Children(s)[i])

RECURSIVE Resolves(_, _, _)
\* every reference met from s resolves in defs and no chain of references leads
\* back to a name it went through (onPath: the names being expanded)
Resolves(s, defs, onPath) ==
    IF IsNull(s) THEN TRUE
    ELSE IF Has(s, "ref")
        THEN LET n == RefName(s.ref)
             IN  /\ n \notin onPath
                 /\ n \in DOMAIN defs
                 /\ Resolves(defs[n], defs, onPath \cup {n})
    ELSE \A i \in 1..Len(Children(s)) : Resolves(Children(s)[i], defs, onPath)

\* the entry of a synthesized mapping under key, or <<>>
Entry(value, key) ==
    LET hits == {i \in 1..Len(value.entries) : value.entries[i][1] = key}
    IN  IF hits = {} THEN <<>> ELSE <<value.entries[CHOOSE i \in hits : TRUE][2]>>

RECURSIVE Conforms(_, _, _)
\* value has, at every node it holds, the JSON kind the schema declares there
Conforms(s, defs, value) ==
    IF Has(s, "ref") THEN Conforms(defs[RefName(s.ref)], defs, value)
    ELSE LET type == IF Has(s, "type") THEN s.type ELSE "undefined" IN
         CASE type = "object" ->
                /\ value.k = "map"
                /\ \A i \in 1..Len(Children(s)) :
                      LET e == Entry(value, s.properties[i][1])
                      IN  e # <<>> => Conforms(Children(s)[i], defs, e[1])
           [] type = "array" ->
                /\ value.k = "seq"
                /\ Has(s, "items") =>
                      \A i \in 1..Len(value.elems) : Conforms(s.items, defs, value.elems[i])
           [] type = "string" -> value.k = "str"
           [] type \in {"integer", "number"} -> value.k = "num"
           [] type = "boolean" -> value.k = "bool"
           [] OTHER -> TRUE

PropStep(key) == [prop |-> key]
ItemsStep == [items |-> TRUE]

RECURSIVE DescriptorNodes(_, _)
\* every descriptor node of a tree with its route from the root
DescriptorNodes(d, route) ==
    {[route |-> route, d |-> d]}
    \cup (IF Has(d, "properties")
          THEN UNION {DescriptorNodes(d.properties[i][2],
                                      Append(route, PropStep(d.properties[i][1]))) :
                      i \in 1..Len(d.properties)}
          ELSE {})
    \cup (IF Has(d, "items")
          THEN DescriptorNodes(d.items, Append(route, ItemsStep))
          ELSE {})

RECURSIVE RoutePath(_)
\* the path a route spells: p.k (k when p is empty) for a property, p[] for items
RoutePath(route) ==
    IF route = <<>> THEN <<>>
    ELSE LET p == RoutePath(SubSeq(route, 1, Len(route) - 1))
             step == Last(route)
         IN  IF Has(step, "prop")
             THEN (IF p = <<>> THEN step.prop ELSE p \o <<".">> \o step.prop)
             ELSE p \o <<"[", "]">>

IsSentinel(e) ==
    /\ e.dummyData = SentinelValue(e.name)
    /\ e.fieldInfo.type = "reference"
    /\ e.fieldInfo.required = FALSE

\* the $ref node found its name in visited, or the table lacks it
DeadEnd(e) == e.name \in e.visitedBefore \/ e.name \notin DOMAIN definitions

Log == result.env.log

(***************************************************************************)
(* Claims about the walker, checked under SpecWalk.                        *)
(***************************************************************************)

\* C1: a top-level walk over a finite schema and a finite table terminates: it never
\* exhausts the call stack, it makes at most one call per node of the schema plus
\* one per node of each definition, and on a well-formed schema it returns a
\* (value, descriptor) pair.
C1_WalkTerminates ==
    Done =>
        /\ result.raised # "RangeError"
        /\ result.env.calls <=
              SchemaSize(schema) + TableSize(definitions, DOMAIN definitions)
        /\ (WellFormed(schema) /\ \A n \in DOMAIN definitions : WellFormed(definitions[n]))
              => /\ result.raised = "none"
                 /\ Has(result, "dummyData") /\ Has(result, "fieldInfo")

\* C1 witness: a self-referential table (A -> A) was walked from a reference to A and
\* the walk returned.
C1_Witness ==
    /\ Returned
    /\ schema = RefS(A)
    /\ A \in DOMAIN definitions /\ definitions[A] = RefS(A)
    /\ result.dummyData = SentinelValue(A)

\* C2: a walk of a schema without any $ref never raises, whatever is absent or
\* malformed in it.
C2_NeverRaises == (Done /\ NoRef(schema)) => result.raised = "none"

\* C3: when all references resolve and form no cycle, the synthesized value has at
\* every node the JSON kind its (dereferenced) schema declares.
C3_ValueConforms ==
    (Done /\ WellFormed(schema) /\ Resolves(schema, definitions, {})
          /\ \A n \in DOMAIN definitions : WellFormed(definitions[n]))
        => /\ result.raised = "none"
           /\ Conforms(schema, definitions, result.dummyData)

\* C4 (as claimed): a $ref node returns the sentinel for its name exactly when the
\* name was already in visited or the table lacks it; otherwise the name is added
\* to visited.
C4_SentinelExactlyWhenDeadEnd ==
    Returned =>
        \A i \in 1..Len(Log) :
            /\ IsSentinel(Log[i]) <=> DeadEnd(Log[i])
            /\ ~DeadEnd(Log[i]) => Log[i].name \in Log[i].visitedAfter

\* C4 (amended): a $ref node whose name was already in visited or is absent from
\* the table returns the sentinel; otherwise the name is added to visited and the
\* result is the walk of the looked-up definition at the same path, annotated with
\* referenceName, and that is the sentinel only if the definition is itself a
\* reference; each name is expanded at most once per walk.
C4_SentinelWhenDeadEnd ==
    Returned =>
        /\ \A i \in 1..Len(Log) :
              LET e == Log[i] IN
              /\ DeadEnd(e) => IsSentinel(e)
              /\ ~DeadEnd(e) =>
                    /\ e.name \in e.visitedAfter
                    /\ e.fieldInfo.referenceName = e.name
                    /\ IsSentinel(e) => Has(definitions[e.name], "ref")
                    /\ LET w == createDummyDataFromSchema(definitions[e.name],
                                    definitions,
                                    [visited |-> e.visitedBefore \cup {e.name},
                                     calls |-> 0, log |-> <<>>, now |-> clock],
                                    e.fieldInfo.path, 1)
                       IN  /\ w.raised = "none"
                           /\ e.dummyData = w.dummyData
                           /\ e.fieldInfo = With(w.fieldInfo, "referenceName", e.name)
        /\ \A i, j \in 1..Len(Log) :
              (i # j /\ Log[i].name = Log[j].name) => DeadEnd(Log[i]) \/ DeadEnd(Log[j])

\* C4 witness: one walk expanded a name, then met it again and returned the sentinel.
C4_Witness ==
    /\ Returned
    /\ \E i, j \in 1..Len(Log) :
          /\ i < j
          /\ Log[i].name = Log[j].name
          /\ ~DeadEnd(Log[i]) /\ ~IsSentinel(Log[i])
          /\ Log[j].name \in Log[j].visitedBefore /\ IsSentinel(Log[j])

\* C6: a property's descriptor has required = true iff its key is in the enclosing
\* object's required list; the root and every items descriptor have required = false.
RECURSIVE RequiredMarks(_, _)
RequiredMarks(s, d) ==
    IF Has(s, "ref")
    THEN d.type = "reference" \/ RequiredMarks(definitions[RefName(s.ref)], d)
    ELSE LET type == IF Has(s, "type") THEN s.type ELSE "undefined" IN
         CASE type = "object" ->
                \A i \in 1..Len(Children(s)) :
                    LET key == s.properties[i][1]
                        child == d.properties[i][2]
                    IN  /\ d.properties[i][1] = key
                        /\ Has(child, "required")
                        /\ child.required = (key \in Range(RequiredOf(s).keys))
                        /\ RequiredMarks(Children(s)[i], child)
           [] type = "array" ->
                /\ Has(d.items, "required")
                /\ d.items.required = FALSE
                /\ Has(s, "items") => RequiredMarks(s.items, d.items)
           [] OTHER -> TRUE

C6_RequiredFromParent ==
    Returned => /\ result.fieldInfo.required = FALSE
                /\ RequiredMarks(schema, result.fieldInfo)

\* C7: no two distinct descriptor nodes of one tree have the same path.
C7_PathsUnique ==
    Returned =>
        \A m, n \in DescriptorNodes(result.fieldInfo, <<>>) :
            (m.route # n.route /\ Has(m.d, "path") /\ Has(n.d, "path"))
                => m.d.path # n.d.path

C9_DescriptorFields ==
    Returned =>
        \A n \in DescriptorNodes(result.fieldInfo, <<>>) :
            /\ Has(n.d, "type")
            /\ Has(n.d, "required") /\ n.d.required \in BOOLEAN
            /\ Has(n.d, "path")

(***************************************************************************)
(* SpecPath: one call of createPathWithParams.                             *)
(***************************************************************************)
Lit(chars) == [lit |-> chars]
Placeholder(name) == [param |-> name]

Pid == <<"i","d">>
Ppage == <<"p","a","g","e">>
Pq == <<"q">>

SegmentChoices ==
    { Lit(<<"/","u","s","e","r","s","/">>), Lit(<<"/">>), Lit(<<"{","}">>),
      Placeholder(Pid), Placeholder(Pq) }

ParameterChoices ==
    { [name |-> Pid, in |-> "path"], [name |-> Ppage, in |-> "query"],
      [name |-> Pq, in |-> "query"], [name |-> Pq, in |-> "header"],
      [name |-> Pid, in |-> "cookie"],
      [ref |-> <<"#","/","p","/","q">>] }

\* sequences over S of length at most n
SeqsUpTo(S, n) == UNION {[1..m -> S] : m \in 0..n}

\* the template text written from its pieces
RECURSIVE Render(_)
Render(segs) ==
    IF segs = <<>> THEN <<>>
    ELSE (IF Has(Head(segs), "lit") THEN Head(segs).lit
          ELSE <<"{">> \o Head(segs).param \o <<"}">>)
         \o Render(Tail(segs))

PathInit ==
    /\ pc = "start"
    /\ clock = 0
    /\ schema = Unused /\ definitions = Unused /\ result = Unused
    /\ segments \in SeqsUpTo(SegmentChoices, MaxSegments)
    /\ pathTemplate = Render(segments)
    /\ parameters \in SeqsUpTo(ParameterChoices, MaxParams)
    /\ fullPath = Unused
    /\ ProcUnused
    /\ AuxUnused

PathCall ==
    /\ pc = "start"
    /\ fullPath' = createPathWithParams(pathTemplate, parameters)
    /\ pc' = "done"
    /\ UNCHANGED <<clock, walkVars, segments, pathTemplate, parameters, procVars, auxVars>>

PathNext == PathCall

SpecPath == PathInit /\ [][PathNext]_vars

\* the template with every placeholder piece written as dummy_<name>
RECURSIVE Substituted(_)
Substituted(segs) ==
    IF segs = <<>> THEN <<>>
    ELSE (IF Has(Head(segs), "lit") THEN Head(segs).lit
          ELSE <<"d","u","m","m","y","_">> \o Head(segs).param)
         \o Substituted(Tail(segs))

InQuery(i) == Has(parameters[i], "in") /\ parameters[i].in = "query"

\* what parameter i adds to the result: nothing unless its location is query, else
\* its pair, led by "?" for the first query parameter and by "&" for the others
RECURSIVE QueryStringFrom(_)
QueryStringFrom(i) ==
    IF i > Len(parameters) THEN <<>>
    ELSE (IF InQuery(i)
          THEN (IF \E j \in 1..(i - 1) : InQuery(j) THEN <<"&">> ELSE <<"?">>)
               \o parameters[i].name \o <<"=","d","u","m","m","y","_","v","a","l","u","e">>
          ELSE <<>>)
         \o QueryStringFrom(i + 1)

\* C10: compose returns the template with every {name} replaced by dummy_name,
\* followed by nothing when no parameter is a query parameter and otherwise by "?" and
\* one name=dummy_value pair per query parameter, in declaration order, joined by "&";
\* path, header and cookie parameters add no pair.
C10_ComposedPath ==
    Done => /\ fullPath = Substituted(segments) \o QueryStringFrom(1)
            /\ (\A i \in 1..Len(parameters) : ~InQuery(i))
                  => fullPath = Substituted(segments)

\* C10 witness: "/users/{id}" with [id in path, page in query] gave
\* "/users/dummy_id?page=dummy_value".
C10_Witness ==
    /\ Done
    /\ pathTemplate = <<"/","u","s","e","r","s","/","{","i","d","}">>
    /\ parameters = <<[name |-> Pid, in |-> "path"], [name |-> Ppage, in |-> "query"]>>
    /\ fullPath = <<"/","u","s","e","r","s","/","d","u","m","m","y","_","i","d","?",
                    "p","a","g","e","=","d","u","m","m","y","_","v","a","l","u","e">>

(***************************************************************************)
(* swaggerService.js: getSwaggerData (7-36), extractBaseUrl (131-151),     *)
(* processSwaggerData (65-129); databaseService.saveApiEndpoint.           *)
(*                                                                         *)
(* A URL is given by what new URL() makes of it: [protocol, host,          *)
(* pathname] when it parses, [invalid |-> TRUE] when the constructor       *)
(* throws.  A document is what axios.get(swaggerUrl) settles with:         *)
(* [status |-> "rejected"] or [status |-> "fulfilled", data |-> ...].      *)
(***************************************************************************)
\* String.prototype.includes
Contains(s, sub) ==
    \E i \in 1..(Len(s) - Len(sub) + 1) : SubSeq(s, i, i + Len(sub) - 1) = sub

ApiDocs == <<"a","p","i","-","d","o","c","s">>
Swagger == <<"s","w","a","g","g","e","r">>

\* segment.includes("api-docs") || segment.includes("swagger")
IsDocsSegment(segment) == Contains(segment, ApiDocs) \/ Contains(segment, Swagger)

\* the base URL of the documented API; "" when the URL does not parse
extractBaseUrl(url) ==
    IF Has(url, "invalid") THEN <<>>
    ELSE
        LET pathSegments == Split(url.pathname, "/")
            hits == {i \in 1..Len(pathSegments) : IsDocsSegment(pathSegments[i])}
            origin == url.protocol \o <<"/", "/">> \o url.host
        IN  IF hits # {}
            THEN LET apiDocsIndex == CHOOSE i \in hits : \A j \in hits : i <= j
                     basePath == Join(SubSeq(pathSegments, 1, apiDocsIndex - 1), <<"/">>)
                 IN  origin \o basePath
            ELSE origin

LowerCase == <<"a","b","c","d","e","f","g","h","i","j","k","l","m",
               "n","o","p","q","r","s","t","u","v","w","x","y","z">>
UpperCase == <<"A","B","C","D","E","F","G","H","I","J","K","L","M",
               "N","O","P","Q","R","S","T","U","V","W","X","Y","Z">>

\* String.prototype.toUpperCase
ToUpperCase(s) ==
    [i \in 1..Len(s) |->
        IF \E j \in 1..26 : LowerCase[j] = s[i]
        THEN UpperCase[CHOOSE j \in 1..26 : LowerCase[j] = s[i]]
        ELSE s[i]]

\* a || b for operands that are JavaScript strings
OrElse(obj, f, other) == IF Has(obj, f) /\ obj[f] # "" THEN obj[f] ELSE other

\* the endpoint one entry [method, details] of a path item gives (lines 15-22)
EndpointOf(path, method, details) ==
    [method |-> ToUpperCase(method),
     path |-> path,
     summary |-> OrElse(details, "summary", OrElse(details, "description", "")),
     tags |-> IF Has(details, "tags") THEN details.tags ELSE <<>>,
     parameters |-> IF Has(details, "parameters") THEN details.parameters ELSE <<>>,
     requestBody |-> IF Has(details, "requestBody") THEN details.requestBody ELSE Null]

\* Object.entries(paths).flatMap(([path, methods]) => Object.entries(methods).map(...)),
\* from path i on
RECURSIVE EndpointsFrom(_, _)
EndpointsFrom(paths, i) ==
    IF i > Len(paths) THEN <<>>
    ELSE LET path == paths[i][1]
             methods == paths[i][2]
         IN  [j \in 1..Len(methods) |-> EndpointOf(path, methods[j][1], methods[j][2])]
             \o EndpointsFrom(paths, i + 1)

\* getSwaggerData(swaggerUrl): [raised |-> "none", value |-> ...], or the error it
\* throws when the request is rejected
getSwaggerData(doc) ==
    IF doc.status = "rejected"
    THEN [raised |-> "Failed to fetch or parse Swagger data"]
    ELSE
        LET data == doc.data
            paths == IF Has(data, "paths") THEN data.paths ELSE <<>>
            defs == IF Has(data, "definitions") THEN data.definitions
                    ELSE IF Has(data, "components") /\ Has(data.components, "schemas")
                        THEN data.components.schemas
                    ELSE <<>>
        IN  [raised |-> "none",
             value |-> [info |-> IF Has(data, "info") THEN data.info ELSE <<>>,
                        servers |-> IF Has(data, "servers") THEN data.servers ELSE <<>>,
                        endpoints |-> EndpointsFrom(paths, 1),
                        paths |-> paths,
                        definitions |-> defs]]

\* JSON.stringify(x): the JSON text of x, and JSON.parse of such a text
Stringify(x) == [json |-> x]
Parse(text) == text.json

\* content["application/json"] || Object.values(content)[0]; <<>> when undefined
JsonContent(content) ==
    LET json == {i \in 1..Len(content) : content[i][1] = "application/json"}
    IN  IF json # {} THEN <<content[CHOOSE i \in json : TRUE][2]>>
        ELSE IF Len(content) > 0 THEN <<content[1][2]>>
        ELSE <<>>

DegradedKeepsEmptyBody(r) ==
    [requestBody |-> Stringify(Map(<<>>)), requestFieldInfo |-> Null, walk |-> <<r>>]

\* lines 89-93: the catch around the walk that ended in r
Degraded(r) == [requestBody |-> Null, requestFieldInfo |-> Null, walk |-> <<r>>]

\* lines 74-94: the request body and the field info of one endpoint.  walk is <<>>
\* when createSchemaBasedRequestBody was not called and <<its result>> otherwise
BodyOf(endpoint, defs, now, live) ==
    LET none == [requestBody |-> Null, requestFieldInfo |-> Null, walk |-> <<>>] IN
    IF IsNull(endpoint.requestBody) THEN none
    ELSE
        LET content == IF Has(endpoint.requestBody, "content")
                       THEN endpoint.requestBody.content ELSE <<>>
            jsonContent == JsonContent(content)
        IN  IF jsonContent # <<>> /\ Has(jsonContent[1], "schema")
               /\ ~IsNull(jsonContent[1].schema)
            THEN LET r == createSchemaBasedRequestBody(jsonContent[1].schema, defs,
                                                       now, live)
                 IN  IF r.raised = "none"
                     THEN [requestBody |-> Stringify(r.dummyData),
                           requestFieldInfo |-> r.fieldInfo,
                           walk |-> <<r>>]
                     ELSE Degraded(r)
            ELSE none

RequestHeaders ==
    << <<"Content-Type", "application/json">>, <<"Authorization", "Bearer dummy_token">> >>

\* lines 97-107: the processed endpoint
ProcessedEndpoint(endpoint, base, body) ==
    [method |-> endpoint.method,
     full_path |-> base \o createPathWithParams(endpoint.path, endpoint.parameters),
     summary |-> endpoint.summary,
     request_body |-> body.requestBody,
     request_field_info |-> IF IsNull(body.requestFieldInfo) THEN Null
                            ELSE Stringify(body.requestFieldInfo),
     request_headers |-> Stringify(RequestHeaders)]

\* databaseService.saveApiEndpoint: the row prisma.apiEndpoint.create returns
saveApiEndpoint(endpointData, rows) ==
    [id |-> Len(rows) + 1,
     method |-> endpointData.method,
     full_path |-> endpointData.full_path,
     summary |-> endpointData.summary,
     request_body |-> endpointData.request_body,
     request_headers |-> Parse(endpointData.request_headers),
     total_requests |-> endpointData.total_requests,
     threads |-> endpointData.threads,
     load_status |-> endpointData.load_status,
     user_id |-> endpointData.user_id]

\* lines 109-115: what processSwaggerData hands to saveApiEndpoint
EndpointData(processedEndpoint, req) ==
    [method |-> processedEndpoint.method,
     full_path |-> processedEndpoint.full_path,
     summary |-> processedEndpoint.summary,
     request_body |-> processedEndpoint.request_body,
     request_field_info |-> processedEndpoint.request_field_info,
     request_headers |-> processedEndpoint.request_headers,
     user_id |-> req.userId,
     load_status |-> TRUE,
     total_requests |-> req.total_requests,
     threads |-> req.threads]

\* the catch of processSwaggerData (lines 125-128)
ProcessingError == [error |-> "Failed to process Swagger data"]

(***************************************************************************)
(* Inputs of SpecProc: documentation URLs and documents.                   *)
(***************************************************************************)
Https == <<"h","t","t","p","s",":">>
Host == <<"a","p","i",".","e","x","a","m","p","l","e",".","c","o","m">>

Urls ==
    { [protocol |-> Https, host |-> Host,
       pathname |-> <<"/","v","3","/","a","p","i","-","d","o","c","s">>],
      [protocol |-> Https, host |-> Host,
       pathname |-> <<"/","o","p","e","n","a","p","i",".","j","s","o","n">>],
      [invalid |-> TRUE] }

Requests ==
    { [swaggerUrl |-> u, userId |-> 7, total_requests |-> 10, threads |-> 2] : u \in Urls }

JsonBody(s) == [content |-> << <<"application/json", [schema |-> s]>> >>]

\* a body whose first media type is not JSON and whose JSON entry comes second
XmlThenJsonBody(x, j) ==
    [content |-> << <<"application/xml", [schema |-> x]>>,
                    <<"application/json", [schema |-> j]>> >>]

Get == <<"g","e","t">>
Post == <<"p","o","s","t">>
Put == <<"p","u","t">>

PathItems ==
    { \* a query with a parameter, no body
      << <<Get, [summary |-> "List", parameters |-> <<[name |-> Ppage, in |-> "query"]>>]>> >>,
      \* a body that is a reference
      << <<Post, [description |-> "Create", requestBody |-> JsonBody(RefS(A))]>> >>,
      \* two methods; a body that uses one name in two sibling properties
      << <<Put, [summary |-> "", requestBody |->
                    XmlThenJsonBody(StrPlain,
                                    ObjS(<< <<Ka, RefS(A)>>, <<Kb, RefS(B)>> >>))]>>,
         <<Get, [tags |-> <<"t">>]>> >>,
      \* a body whose walk raises after it has expanded a name
      << <<Post, [requestBody |->
                    JsonBody(ObjS(<< <<Ka, RefS(B)>>,
                                     <<Kb, ObjR(<< <<Ka, StrPlain>> >>,
                                                ReqBool(TRUE))>> >>))]>> >>,
      \* a path-level parameters list, and a body without content
      << <<<<"p","a","r","a","m","e","t","e","r","s">>,
           [elems |-> <<[name |-> Pid, in |-> "path"]>>]>>,
         <<Post, [requestBody |-> [description |-> "none"]]>> >> }

\* the key of the i-th path of a document
PathKey(i) ==
    IF i = 1 THEN <<"/","u","s","e","r","s","/","{","i","d","}">>
    ELSE <<"/","p">> \o [j \in 1..i |-> "x"]

SchemaTable == [n \in {A, B} |-> IF n = A THEN ObjS(<< <<Ka, StrPlain>> >>)
                                 ELSE ObjS(<< <<Kb, RefS(A)>> >>)]

\* the document with the path items given, as Swagger 2 or as OpenAPI 3 writes it
DocumentOf(items, swagger2) ==
    [status |-> "fulfilled",
     data |-> IF swagger2
              THEN [info |-> [title |-> "api"],
                    paths |-> [i \in 1..Len(items) |-> <<PathKey(i), items[i]>>],
                    definitions |-> SchemaTable]
              ELSE [paths |-> [i \in 1..Len(items) |-> <<PathKey(i), items[i]>>],
                    components |-> [schemas |-> SchemaTable]]]

Documents ==
    { [status |-> "rejected"], [status |-> "fulfilled", data |-> [text |-> "<html>"]] }
    \cup
    { DocumentOf(items, swagger2) :
        items \in SeqsUpTo(PathItems, MaxPaths), swagger2 \in BOOLEAN }

(***************************************************************************)
(* SpecProc: calls of processSwaggerData, one after the other, against one *)
(* database.  A call is at "fetch" (awaiting getSwaggerData), at "loop"    *)
(* (between two iterations of the for-loop) or "done".                     *)
(***************************************************************************)
Pending == [pending |-> TRUE]

ProcInit ==
    /\ pc = "fetch"
    /\ clock = 0
    /\ schema = Unused /\ definitions = Unused /\ result = Unused
    /\ segments = Unused /\ pathTemplate = Unused /\ parameters = Unused /\ fullPath = Unused
    /\ AuxUnused
    /\ request \in Requests
    /\ document \in Documents
    \* a URL that does not parse cannot be fetched
    /\ Has(request.swaggerUrl, "invalid") => document.status = "rejected"
    /\ swaggerData = Pending
    /\ baseUrl = <<>>
    /\ processedEndpoints = <<>>
    /\ response = Pending
    /\ database = <<>>
    /\ liveSet = {}
    /\ walks = <<>>
    /\ runs = 1

\* lines 67-69: getSwaggerData resolved
FetchOk ==
    /\ pc = "fetch"
    /\ getSwaggerData(document).raised = "none"
    /\ swaggerData' = getSwaggerData(document).value
    /\ baseUrl' = extractBaseUrl(request.swaggerUrl)
    /\ processedEndpoints' = <<>>
    /\ pc' = "loop"
    /\ UNCHANGED <<clock, auxVars, walkVars, pathVars, request, document, response, database,
                   liveSet, walks, runs>>

\* lines 67, 125-128: getSwaggerData threw
FetchFail ==
    /\ pc = "fetch"
    /\ getSwaggerData(document).raised # "none"
    /\ response' = ProcessingError
    /\ pc' = "done"
    /\ UNCHANGED <<clock, auxVars, walkVars, pathVars, request, document, swaggerData, baseUrl,
                   processedEndpoints, database, liveSet, walks, runs>>

CurrentIsFirst == swaggerData.endpoints[1]

\* the endpoint the next iteration of the loop handles
Current == swaggerData.endpoints[Len(processedEndpoints) + 1]

CurrentBody == BodyOf(Current, swaggerData.definitions, clock, liveSet)

\* lines 71-107 of one iteration: what the walk, if any, leaves behind, and (for the
\* observer walks) the processed endpoint that is handed to saveApiEndpoint
Walked ==
    LET w == CurrentBody.walk IN
    /\ liveSet' = IF w = <<>> THEN liveSet ELSE w[1].env.visited
    /\ walks' = IF w = <<>> THEN walks
                ELSE Append(walks, [run |-> runs,
                                    endpoint |-> Len(processedEndpoints) + 1,
                                    raised |-> w[1].raised,
                                    log |-> w[1].env.log,
                                    handed |-> ProcessedEndpoint(Current, baseUrl,
                                                                 CurrentBody)])

\* lines 71-117: one iteration whose save resolves
SaveOk ==
    /\ pc = "loop"
    /\ Len(processedEndpoints) < Len(swaggerData.endpoints)
    /\ Walked
    /\ LET savedEndpoint ==
               saveApiEndpoint(
                   EndpointData(ProcessedEndpoint(Current, baseUrl, CurrentBody), request),
                   database)
       IN  /\ database' = Append(database, savedEndpoint)
           /\ processedEndpoints' = Append(processedEndpoints, savedEndpoint)
    /\ UNCHANGED <<pc, clock, auxVars, walkVars, pathVars, request, document, swaggerData, baseUrl,
                   response, runs>>

\* lines 71-115, 125-128: one iteration whose save rejects
SaveFail ==
    /\ pc = "loop"
    /\ Len(processedEndpoints) < Len(swaggerData.endpoints)
    /\ Walked
    /\ response' = ProcessingError
    /\ pc' = "done"
    /\ UNCHANGED <<clock, auxVars, walkVars, pathVars, request, document, swaggerData, baseUrl,
                   processedEndpoints, database, runs>>

\* lines 120-124: the loop is over
ReturnResult ==
    /\ pc = "loop"
    /\ Len(processedEndpoints) = Len(swaggerData.endpoints)
    /\ response' = [swaggerInfo |-> swaggerData.info,
                    endpointsProcessed |-> Len(processedEndpoints),
                    endpoints |-> processedEndpoints]
    /\ pc' = "done"
    /\ UNCHANGED <<clock, auxVars, walkVars, pathVars, request, document, swaggerData, baseUrl,
                   processedEndpoints, database, liveSet, walks, runs>>

\* the controller calls processSwaggerData again with the same arguments
NextCall ==
    /\ pc = "done"
    /\ runs < MaxRuns
    /\ runs' = runs + 1
    /\ pc' = "fetch"
    /\ swaggerData' = Pending
    /\ baseUrl' = <<>>
    /\ processedEndpoints' = <<>>
    /\ response' = Pending
    /\ UNCHANGED <<clock, auxVars, walkVars, pathVars, request, document, database, liveSet, walks>>

ProcNext == FetchOk \/ FetchFail \/ SaveOk \/ SaveFail \/ ReturnResult \/ NextCall

SpecProc == ProcInit /\ [][ProcNext]_vars

(***************************************************************************)
(* Claims about the visited Set across walks, checked under SpecProc.      *)
(***************************************************************************)
\* the table of the document at hand
Table == getSwaggerData(document).value.definitions

\* e is the first $ref node of its walk that met its name
FirstMet(w, e) == \A f \in Range(w.log) : f.name = e.name => e.seq <= f.seq

\* the $ref node was not flagged by visited: its definition was looked up
LookedUp(e) == Has(e.fieldInfo, "referenceName") /\ e.fieldInfo.referenceName = e.name

\* C5: the visited set is fresh for every top-level walk: in every walk of every
\* call, whatever the walks before it expanded, the first $ref node that meets a
\* name N finds N not in visited and is resolved through the table (it carries
\* referenceName N) and is not answered with the visited sentinel.
C5_VisitedFreshPerWalk ==
    \A i \in 1..Len(walks) :
        walks[i].raised = "none" =>
            \A e \in Range(walks[i].log) :
                FirstMet(walks[i], e) => e.name \notin e.visitedBefore /\ LookedUp(e)

\* C5 witness: a name of the table was expanded by the walk of an earlier endpoint
\* and is met, first and expanded again, by the walk of a later endpoint of the same
\* call, and also by a walk of a later call.
C5_Witness ==
    \E i, j, k \in 1..Len(walks) :
        /\ walks[i].run = walks[j].run /\ walks[i].endpoint < walks[j].endpoint
        /\ walks[i].run < walks[k].run
        /\ walks[j].raised = "none" /\ walks[k].raised = "none"
        /\ \E e \in Range(walks[i].log), f \in Range(walks[j].log),
              g \in Range(walks[k].log) :
                /\ e.name = f.name /\ e.name = g.name
                /\ e.name \in DOMAIN Table
                /\ LookedUp(e)
                /\ FirstMet(walks[j], f) /\ LookedUp(f)
                /\ FirstMet(walks[k], g) /\ LookedUp(g)

(***************************************************************************)
(* SpecUrl: one call of extractBaseUrl of swaggerUtils.js (165-186), the   *)
(* copy that also knows the marker "v3".                                   *)
(***************************************************************************)
V3 == <<"v","3">>

IsMarkedSegmentWithoutV3(segment) ==
    Contains(segment, ApiDocs) \/ Contains(segment, Swagger)

\* segment.includes("api-docs") || segment.includes("swagger") || segment.includes("v3")
IsMarkedSegment(segment) ==
    Contains(segment, ApiDocs) \/ Contains(segment, Swagger) \/ Contains(segment, V3)

swaggerUtils_extractBaseUrl(url) ==
    IF Has(url, "invalid") THEN <<>>
    ELSE
        LET pathSegments == Split(url.pathname, "/")
            hits == {i \in 1..Len(pathSegments) : IsMarkedSegment(pathSegments[i])}
            origin == url.protocol \o <<"/", "/">> \o url.host
        IN  IF hits # {}
            THEN LET apiDocsIndex == CHOOSE i \in hits : \A j \in hits : i <= j
                     basePath == Join(SubSeq(pathSegments, 1, apiDocsIndex - 1), <<"/">>)
                 IN  origin \o basePath
            ELSE origin

\* segments of the path of a generated URL
MaxUrlSegments == 3

UrlSegmentChoices ==
    { <<>>, V3, ApiDocs, <<"a","p","i">>, <<"s","w","a","g","g","e","r","-","u","i">>,
      <<"v","3","0">>, <<"u","s","e","r","s">> }

\* "/" followed by the segments joined by "/"
PathnameOf(segs) == <<"/">> \o Join(segs, <<"/">>)

\* the URLs handed to extractBaseUrl; segs, the segments the path was written from,
\* is kept beside what new URL() yields
SwaggerUrls ==
    { [invalid |-> TRUE] }
    \cup
    { [protocol |-> p, host |-> h, pathname |-> PathnameOf(segs), segs |-> segs] :
        p \in {Https, <<"h","t","t","p",":">>},
        h \in {Host, <<"s","w","a","g","g","e","r",".","i","o",":","8","0","8","0">>},
        segs \in SeqsUpTo(UrlSegmentChoices, MaxUrlSegments) }

UrlInit ==
    /\ pc = "start"
    /\ clock = 0
    /\ schema = Unused /\ definitions = Unused /\ result = Unused
    /\ segments = Unused /\ pathTemplate = Unused /\ parameters = Unused /\ fullPath = Unused
    /\ ProcUnused
    /\ SelUnused /\ again = Unused /\ saves = Unused
    /\ swaggerUrl \in SwaggerUrls
    /\ resolved = Unused

UrlCall ==
    /\ pc = "start"
    /\ resolved' = swaggerUtils_extractBaseUrl(swaggerUrl)
    /\ pc' = "done"
    /\ UNCHANGED <<clock, walkVars, pathVars, procVars, selVars, again, saves, swaggerUrl>>

UrlNext == UrlCall

SpecUrl == UrlInit /\ [][UrlNext]_vars

\* the segment holds one of the markers "api-docs", "swagger", "v3"
HoldsMarker(seg) ==
    \E m \in {ApiDocs, Swagger, V3} :
        \E i \in 1..Len(seg) : i + Len(m) - 1 <= Len(seg) /\
            \A j \in 1..Len(m) : seg[i + j - 1] = m[j]

\* "/s1/s2/.../sn" for the first n of the segments
RECURSIVE Leading(_, _)
Leading(segs, n) ==
    IF n = 0 THEN <<>> ELSE Leading(segs, n - 1) \o <<"/">> \o segs[n]

\* the number of segments that precede the first one holding a marker
Preceding(segs) ==
    IF \E i \in 1..Len(segs) : HoldsMarker(segs[i])
    THEN (CHOOSE i \in 1..Len(segs) :
             HoldsMarker(segs[i]) /\ \A j \in 1..(i - 1) : ~HoldsMarker(segs[j])) - 1
    ELSE 0

Origin == swaggerUrl.protocol \o <<"/", "/">> \o swaggerUrl.host

\* C11: resolve returns scheme://host followed by the path segments that precede
\* the first segment holding a marker ("api-docs", "swagger", "v3"), scheme://host
\* alone when no segment holds one, so that no path segment of the result holds a
\* marker; for a URL that does not parse it returns the empty string.
C11_BaseUrl ==
    Done =>
        IF Has(swaggerUrl, "invalid") THEN resolved = <<>>
        ELSE /\ resolved = Origin \o Leading(swaggerUrl.segs, Preceding(swaggerUrl.segs))
             /\ (\A i \in 1..Len(swaggerUrl.segs) : ~HoldsMarker(swaggerUrl.segs[i]))
                    => resolved = Origin
             /\ \A seg \in Range(Split(SubSeq(resolved, Len(Origin) + 1, Len(resolved)),
                                       "/")) : ~HoldsMarker(seg)

\* C11 witness: "https://api.example.com/v3/api-docs" gave "https://api.example.com".
C11_Witness ==
    /\ Done
    /\ ~Has(swaggerUrl, "invalid")
    /\ swaggerUrl.protocol = Https /\ swaggerUrl.host = Host
    /\ swaggerUrl.pathname = <<"/","v","3","/","a","p","i","-","d","o","c","s">>
    /\ resolved = <<"h","t","t","p","s",":","/","/","a","p","i",".","e","x","a","m","p",
                    "l","e",".","c","o","m">>

(***************************************************************************)
(* SecurityResolver and the selection of endpoints, as the specification   *)
(* describes them (sections 4.4 and 4.5): the controller passes            *)
(* selectedIds and token to a processSwaggerData that takes six            *)
(* arguments.  Header names and values are sequences of characters.        *)
(***************************************************************************)
Authorization == <<"A","u","t","h","o","r","i","z","a","t","i","o","n">>
BasicPrefix == <<"B","a","s","i","c"," ">>
BearerPrefix == <<"B","e","a","r","e","r"," ">>

Header(name, value) == [headerName |-> name, headerValue |-> value]

\* any scheme that is not http/basic, http/bearer or apiKey in header: "Bearer <token>"
Fallback(token) == Header(Authorization, BearerPrefix \o token)

\* the header of one scheme definition
SchemeHeaderIgnoresName(scheme, token) ==
    IF scheme.type = "http" /\ Has(scheme, "scheme") /\ scheme.scheme = "basic"
    THEN Header(Authorization, BasicPrefix \o token)
    ELSE IF scheme.type = "apiKey" /\ Has(scheme, "in") /\ scheme.in = "header"
    THEN Header(Authorization, token)
    ELSE Fallback(token)

SchemeHeader(scheme, token) ==
    IF scheme.type = "http" /\ Has(scheme, "scheme") /\ scheme.scheme = "basic"
    THEN Header(Authorization, BasicPrefix \o token)
    ELSE IF scheme.type = "http" /\ Has(scheme, "scheme") /\ scheme.scheme = "bearer"
    THEN Header(Authorization, BearerPrefix \o token)
    ELSE IF scheme.type = "apiKey" /\ Has(scheme, "in") /\ scheme.in = "header"
    THEN Header(scheme.name, token)
    ELSE Fallback(token)

\* SecurityResolver.resolve(securityRequirements, securitySchemes, token): the first
\* scheme name of the first requirement decides.  An optional argument is <<>> when
\* it is not supplied and <<value>> when it is.
resolve(securityRequirements, securitySchemes, token) ==
    IF token = <<>> \/ Len(securityRequirements) = 0
    THEN Header(Authorization, <<>>)
    ELSE LET name == securityRequirements[1][1][1]
         IN  IF name \notin DOMAIN securitySchemes
             THEN Header(Authorization, <<>>)
             ELSE SchemeHeader(securitySchemes[name], token[1])

\* the security requirements and the schemes table of a document
SecurityOf(data) == IF Has(data, "security") THEN data.security ELSE <<>>

SchemesOf(data) ==
    IF Has(data, "components") /\ Has(data.components, "securitySchemes")
    THEN data.components.securitySchemes
    ELSE IF Has(data, "securityDefinitions") THEN data.securityDefinitions
    ELSE <<>>

\* the endpoints numbered 1, 2, 3, ... in the order of the enumeration
AssignIds(endpoints) == [i \in 1..Len(endpoints) |-> With(endpoints[i], "id", i)]

RestrictNever(numbered, selectedIds) == numbered

\* all endpoints when selectedIds is absent or empty, else those whose id is in it
Restrict(numbered, selectedIds) ==
    IF selectedIds = <<>> \/ Len(selectedIds[1]) = 0 THEN numbered
    ELSE SelectSeq(numbered, LAMBDA e : e.id \in Range(selectedIds[1]))

\* request_headers: Content-Type and the resolved header
HeadersWith(context) ==
    << << <<"C","o","n","t","e","n","t","-","T","y","p","e">>,
          <<"a","p","p","l","i","c","a","t","i","o","n","/","j","s","o","n">> >>,
       <<context.headerName, context.headerValue>> >>

(***************************************************************************)
(* SpecSelect: one call of process with selectedIds and token.  The fetch, *)
(* the enumeration, the body and the path of a template are those of       *)
(* swaggerService.js; the numbering, the selection and the resolved header *)
(* are those of the specification.                                         *)
(***************************************************************************)
BasicAuth == <<"b","a","s","i","c","A","u","t","h">>
BearerAuth == <<"b","e","a","r","e","r","A","u","t","h">>
ApiKeyAuth == <<"a","p","i","K","e","y","A","u","t","h">>
OAuth == <<"o","a","u","t","h">>
\* a scheme name no table holds
Ghost == <<"g","h","o","s","t">>
XApiKey == <<"X","-","A","p","i","-","K","e","y">>
Abc == <<"a","b","c">>

SchemeTable ==
    [n \in {BasicAuth, BearerAuth, ApiKeyAuth, OAuth} |->
        IF n = BasicAuth THEN [type |-> "http", scheme |-> "basic"]
        ELSE IF n = BearerAuth THEN [type |-> "http", scheme |-> "bearer"]
        ELSE IF n = ApiKeyAuth THEN [type |-> "apiKey", in |-> "header", name |-> XApiKey]
        ELSE [type |-> "oauth2"]]

\* a requirement that names one scheme
Requirement(name) == << <<name, <<>> >> >>

SecurityChoices ==
    { <<>> }
    \cup {<<Requirement(n)>> : n \in {BasicAuth, BearerAuth, ApiKeyAuth, OAuth, Ghost}}
    \cup { <<Requirement(ApiKeyAuth), Requirement(BasicAuth)>>,
           << << <<BearerAuth, <<>> >>, <<ApiKeyAuth, <<>> >> >> >> }

\* a document with the security requirements sec (none declared when absent is TRUE)
Secured(doc, sec, absent) ==
    LET data == doc.data
        withSchemes ==
            IF Has(data, "components")
            THEN With(data, "components",
                      With(data.components, "securitySchemes", SchemeTable))
            ELSE With(data, "securityDefinitions", SchemeTable)
    IN  [doc EXCEPT !.data = IF absent THEN withSchemes
                             ELSE With(withSchemes, "security", sec)]

\* path items with one method, with two methods, and with a path-level parameters list
SelPathItems == {p \in PathItems : Len(p) = 2 \/ p[1][1] = Get}

SelPlain ==
    { DocumentOf(items, swagger2) :
        items \in SeqsUpTo(SelPathItems, MaxPaths), swagger2 \in BOOLEAN }

SelDocuments ==
    { [status |-> "rejected"] }
    \cup { Secured(d, <<>>, TRUE) : d \in SelPlain }
    \cup { Secured(d, sec, FALSE) : d \in SelPlain, sec \in SecurityChoices }

SelectedIdChoices ==
    { <<>>, << <<>> >>, << <<2>> >>, << <<3, 1>> >>, << <<2, 2>> >>, << <<9>> >> }

SelInit ==
    /\ pc = "fetch"
    /\ clock = 0
    /\ schema = Unused /\ definitions = Unused /\ result = Unused
    /\ segments = Unused /\ pathTemplate = Unused /\ parameters = Unused /\ fullPath = Unused
    /\ UrlUnused /\ again = Unused /\ saves = Unused
    /\ request \in {r \in Requests : ~Has(r.swaggerUrl, "invalid")
                                      /\ Contains(r.swaggerUrl.pathname, V3)}
    /\ document \in SelDocuments
    /\ options \in [selectedIds : SelectedIdChoices, token : {<<>>, <<Abc>>}]
    /\ securityContext = Pending
    /\ selected = <<>>
    /\ swaggerData = Pending
    /\ baseUrl = <<>>
    /\ processedEndpoints = <<>>
    /\ response = Pending
    /\ database = <<>>
    /\ liveSet = {}
    /\ walks = <<>>
    /\ runs = 1

\* the document arrived: number the endpoints, select, resolve the header once
SelStart ==
    /\ pc = "fetch"
    /\ getSwaggerData(document).raised = "none"
    /\ swaggerData' = getSwaggerData(document).value
    /\ baseUrl' = swaggerUtils_extractBaseUrl(request.swaggerUrl)
    /\ securityContext' = resolve(SecurityOf(document.data), SchemesOf(document.data),
                                  options.token)
    /\ selected' = Restrict(AssignIds(getSwaggerData(document).value.endpoints),
                            options.selectedIds)
    /\ processedEndpoints' = <<>>
    /\ pc' = "loop"
    /\ UNCHANGED <<clock, walkVars, pathVars, urlVars, again, saves, request, document, response,
                   database, liveSet, walks, runs, options>>

\* the document could not be fetched
SelFetchFail ==
    /\ pc = "fetch"
    /\ getSwaggerData(document).raised # "none"
    /\ response' = [error |-> "FetchFailure"]
    /\ pc' = "done"
    /\ UNCHANGED <<clock, walkVars, pathVars, urlVars, again, saves, selVars, request, document,
                   swaggerData, baseUrl, processedEndpoints, database, liveSet, walks, runs>>

\* the template of the next selected endpoint
SelTemplate ==
    LET endpoint == selected[Len(processedEndpoints) + 1]
        body == BodyOf(endpoint, swaggerData.definitions, clock, liveSet)
    IN  With(ProcessedEndpoint(endpoint, baseUrl, body), "request_headers",
             Stringify(HeadersWith(securityContext)))

\* one selected endpoint is processed and persisted
SelEmit ==
    /\ pc = "loop"
    /\ Len(processedEndpoints) < Len(selected)
    /\ processedEndpoints' = Append(processedEndpoints, SelTemplate)
    /\ database' = Append(database, With(SelTemplate, "id", Len(database) + 1))
    /\ UNCHANGED <<pc, clock, walkVars, pathVars, urlVars, again, saves, selVars, request, document,
                   swaggerData, baseUrl, response, liveSet, walks, runs>>

\* the persistence collaborator fails: terminal failure of the call
SelPersistFail ==
    /\ pc = "loop"
    /\ Len(processedEndpoints) < Len(selected)
    /\ response' = [error |-> "PersistenceFailure"]
    /\ pc' = "done"
    /\ UNCHANGED <<clock, walkVars, pathVars, urlVars, again, saves, selVars, request, document,
                   swaggerData, baseUrl, processedEndpoints, database, liveSet, walks, runs>>

SelReturn ==
    /\ pc = "loop"
    /\ Len(processedEndpoints) = Len(selected)
    /\ response' = [templates |-> processedEndpoints]
    /\ pc' = "done"
    /\ UNCHANGED <<clock, walkVars, pathVars, urlVars, again, saves, selVars, request, document,
                   swaggerData, baseUrl, processedEndpoints, database, liveSet, walks, runs>>

SelNext == SelStart \/ SelFetchFail \/ SelEmit \/ SelPersistFail \/ SelReturn

SpecSelect == SelInit /\ [][SelNext]_vars

(***************************************************************************)
(* Claims about the resolved header and the selection, under SpecSelect.   *)
(***************************************************************************)
\* the authorization entry of a template's request_headers
AuthEntry(template) == Parse(template.request_headers)[2]

DeclaredSecurity ==
    IF Has(document.data, "security") THEN document.data.security ELSE <<>>

DeclaredSchemes ==
    IF Has(document.data, "securityDefinitions") THEN document.data.securityDefinitions
    ELSE document.data.components.securitySchemes

\* the name of the first scheme of the first requirement
FirstSchemeName == DeclaredSecurity[1][1][1]

HttpMethods ==
    { Get, Post, Put, <<"d","e","l","e","t","e">>, <<"p","a","t","c","h">>,
      <<"h","e","a","d">>, <<"o","p","t","i","o","n","s">>, <<"t","r","a","c","e">> }

\* the (path, method) pairs of a document in declaration order, from path i on
RECURSIVE MethodPairsFrom(_, _)
MethodPairsFrom(paths, i) ==
    IF i > Len(paths) THEN <<>>
    ELSE LET item == SelectSeq(paths[i][2], LAMBDA entry : entry[1] \in HttpMethods)
         IN  [j \in 1..Len(item) |-> <<paths[i][1], item[j][1]>>]
             \o MethodPairsFrom(paths, i + 1)

MethodPairs == MethodPairsFrom(document.data.paths, 1)

\* the k-th smallest member of a set of numbers
Nth(S, k) == CHOOSE x \in S : Cardinality({y \in S : y < x}) = k - 1

\* the numbers of the endpoints the call is to handle
Chosen ==
    IF options.selectedIds = <<>> \/ options.selectedIds[1] = <<>>
    THEN 1..Len(MethodPairs)
    ELSE {i \in 1..Len(MethodPairs) : i \in Range(options.selectedIds[1])}

Succeeded == pc = "done" /\ Has(response, "templates")

\* C13: with the (path, method) pairs of the document numbered 1, 2, 3, ... in
\* declaration order, a call that succeeds returns the templates of all pairs when
\* selectedIds is absent or empty, and otherwise of exactly the pairs whose number
\* is in selectedIds.
C13_SelectedByNumber ==
    Succeeded =>
        /\ Len(response.templates) = Cardinality(Chosen)
        /\ \A k \in 1..Len(response.templates) :
               LET pair == MethodPairs[Nth(Chosen, k)] IN
               /\ response.templates[k].method = ToUpperCase(pair[2])
               /\ selected[k].path = pair[1]

(***************************************************************************)
(* Claims about processSwaggerData, checked under SpecProc.                *)
(***************************************************************************)
\* the call at hand returned its result
ReturnedResult == pc = "done" /\ Has(response, "endpoints")

\* the call at hand ended in its catch
Failed == pc = "done" /\ Has(response, "error")

\* C14: a call that succeeds returns one template per enumerated endpoint, in the
\* order of the enumeration: the i-th has the method of the i-th endpoint and the
\* full path made of its path and parameters; endpointsProcessed is their number.
C14_OneTemplatePerEndpoint ==
    ReturnedResult =>
        /\ Len(response.endpoints) = Len(swaggerData.endpoints)
        /\ response.endpointsProcessed = Len(swaggerData.endpoints)
        /\ \A i \in 1..Len(response.endpoints) :
               /\ response.endpoints[i].method = swaggerData.endpoints[i].method
               /\ response.endpoints[i].full_path =
                      baseUrl \o createPathWithParams(swaggerData.endpoints[i].path,
                                                      swaggerData.endpoints[i].parameters)

\* C14 witness: a call returned the templates of three endpoints, the first two of
\* them of different paths and methods.
C14_Witness ==
    /\ ReturnedResult
    /\ Len(response.endpoints) >= 3
    /\ swaggerData.endpoints[1].method # swaggerData.endpoints[2].method
    /\ swaggerData.endpoints[1].path # swaggerData.endpoints[2].path

\* what endpoint j alone gives, no other endpoint having been walked before it
Isolated(j) == BodyOf(swaggerData.endpoints[j], swaggerData.definitions, clock, {})

\* C15: when the walk of an endpoint's request body raises, the processed endpoint
\* is handed on with request_body = null and request_field_info = null and is saved
\* with a null body; the loop is not left on account of it (while the call is in
\* its loop, the endpoint whose walk raised has been pushed); and the body of every
\* saved endpoint is the one its own schema gives, whatever the other endpoints are.
C15_WalkErrorDegrades ==
    /\ \A i \in 1..Len(walks) :
           walks[i].raised # "none" =>
               /\ IsNull(walks[i].handed.request_body)
               /\ IsNull(walks[i].handed.request_field_info)
               /\ (walks[i].run = runs /\ pc # "fetch"
                   /\ walks[i].endpoint <= Len(processedEndpoints))
                      => IsNull(processedEndpoints[walks[i].endpoint].request_body)
    /\ \A i \in 1..Len(walks) :
           (walks[i].raised # "none" /\ walks[i].run = runs /\ pc = "loop")
               => walks[i].endpoint <= Len(processedEndpoints)
    /\ pc # "fetch" =>
           \A j \in 1..Len(processedEndpoints) :
               processedEndpoints[j].request_body = Isolated(j).requestBody

\* C15 witness: a call returned two templates although the walk of the first
\* endpoint's body raised; the second one has its body.
C15_Witness ==
    /\ ReturnedResult
    /\ Len(response.endpoints) = 2
    /\ \E i \in 1..Len(walks) :
           walks[i].run = runs /\ walks[i].endpoint = 1 /\ walks[i].raised # "none"
    /\ IsNull(response.endpoints[1].request_body)
    /\ ~IsNull(response.endpoints[2].request_body)

\* the call at hand failed before the document was there / after it was there
FetchCause == Failed /\ swaggerData = Pending
PersistCause == Failed /\ swaggerData # Pending

\* C16: a terminal failure is reported with an error that tells its cause: the
\* fetch-or-parse error when the document could not be fetched, the processing
\* error when processing or saving failed; the two causes never get the same error.
C16_ErrorTellsCause ==
    /\ FetchCause => response.error = "Failed to fetch or parse Swagger data"
    /\ PersistCause => response.error = "Failed to process Swagger data"

(***************************************************************************)
(* SpecRepeat: createSchemaBasedRequestBody is called, time passes and     *)
(* another schema may be walked, and it is called again with the same      *)
(* schema and definitions.                                                 *)
(***************************************************************************)
\* ticks of the clock between the two calls
MaxClock == 1

RepeatSchemas ==
    Leaves \cup Refs
    \cup { ObjS(<< <<Ka, [type |-> "string", format |-> "date-time"]>>,
                   <<Kb, [type |-> "string", format |-> "uuid"]>> >>),
           ArrS([type |-> "string", format |-> "date"]),
           ObjS(<< <<Ka, RefS(A)>>, <<Kb, RefS(B)>> >>),
           AddressBook }

RepeatInit ==
    /\ pc = "start"
    /\ clock = 0
    /\ schema \in RepeatSchemas
    /\ definitions \in DefinitionTables
    /\ result = NoResult
    /\ again = NoResult /\ saves = Unused
    /\ segments = Unused /\ pathTemplate = Unused /\ parameters = Unused /\ fullPath = Unused
    /\ UrlUnused /\ SelUnused
    /\ request = Unused /\ document = Unused /\ swaggerData = Unused
    /\ baseUrl = Unused /\ processedEndpoints = Unused /\ response = Unused
    /\ database = Unused /\ walks = Unused /\ runs = Unused
    /\ liveSet = {}

RepeatFirst ==
    /\ pc = "start"
    /\ result' = createSchemaBasedRequestBody(schema, definitions, clock, liveSet)
    /\ liveSet' = result'.env.visited
    /\ pc' = "between"
    /\ UNCHANGED <<clock, schema, definitions, again, saves, pathVars, urlVars, selVars, request,
                   document, swaggerData, baseUrl, processedEndpoints, response, database,
                   walks, runs>>

\* time passes
Tick ==
    /\ pc \in {"between", "other"}
    /\ clock < MaxClock
    /\ clock' = clock + 1
    /\ UNCHANGED <<pc, walkVars, pathVars, procVars, auxVars>>

\* a walk of another schema against the same definitions
OtherWalk ==
    /\ pc = "between"
    /\ \E s \in Refs \cup {ObjS(<< <<Ka, RefS(A)>>, <<Kb, RefS(B)>> >>)} :
           liveSet' = createSchemaBasedRequestBody(s, definitions, clock, liveSet).env.visited
    /\ pc' = "other"
    /\ UNCHANGED <<clock, walkVars, again, saves, pathVars, urlVars, selVars, request,
                   document, swaggerData, baseUrl, processedEndpoints, response, database,
                   walks, runs>>

RepeatSecond ==
    /\ pc \in {"between", "other"}
    /\ again' = createSchemaBasedRequestBody(schema, definitions, clock, liveSet)
    /\ liveSet' = again'.env.visited
    /\ pc' = "done"
    /\ UNCHANGED <<clock, walkVars, pathVars, urlVars, selVars, saves, request,
                   document, swaggerData, baseUrl, processedEndpoints, response, database,
                   walks, runs>>

RepeatNext == RepeatFirst \/ Tick \/ OtherWalk \/ RepeatSecond

SpecRepeat == RepeatInit /\ [][RepeatNext]_vars

\* both calls came back
Twice == pc = "done" /\ result.raised # "pending" /\ again.raised # "pending"

\* a value with every timestamp and date in it replaced by that of time 0
RECURSIVE Untimed(_)
Untimed(v) ==
    IF v.k = "map"
    THEN Map([i \in 1..Len(v.entries) |-> <<v.entries[i][1], Untimed(v.entries[i][2])>>])
    ELSE IF v.k = "seq" THEN Arr([i \in 1..Len(v.elems) |-> Untimed(v.elems[i])])
    ELSE IF Has(v, "iso") THEN IsoDateTime(0)
    ELSE IF Has(v, "isoDate") THEN IsoDate(0)
    ELSE v

\* the values of the string nodes of a value that hold a timestamp or a date
RECURSIVE Times(_)
Times(v) ==
    IF v.k = "map" THEN UNION {Times(v.entries[i][2]) : i \in 1..Len(v.entries)}
    ELSE IF v.k = "seq" THEN UNION {Times(v.elems[i]) : i \in 1..Len(v.elems)}
    ELSE IF Has(v, "iso") THEN {v.iso}
    ELSE IF Has(v, "isoDate") THEN {v.isoDate}
    ELSE {}

UuidLeaf == [type |-> "string", format |-> "uuid", enum |-> <<"x", "y">>]

\* C17 (as claimed): two top-level walks of one schema against one table return
\* equal values and equal descriptor trees, whatever happens in between; a string
\* node of format uuid yields "00000000-0000-0000-0000-000000000000".
C17_Deterministic ==
    Twice =>
        /\ again.raised = result.raised
        /\ result.raised = "none" =>
               /\ again.dummyData = result.dummyData
               /\ again.fieldInfo = result.fieldInfo
        /\ schema = UuidLeaf =>
               again.dummyData = Str("00000000-0000-0000-0000-000000000000")

\* C17 (amended): the descriptor trees are equal and the values are equal but for
\* the string nodes of format date-time and date, which hold the time of their walk.
C17_DeterministicButForTime ==
    Twice =>
        /\ again.raised = result.raised
        /\ result.raised = "none" =>
               /\ Untimed(again.dummyData) = Untimed(result.dummyData)
               /\ Times(result.dummyData) \subseteq {result.env.now}
               /\ Times(again.dummyData) \subseteq {again.env.now}
               /\ Times(result.dummyData) = {} => again.dummyData = result.dummyData
               /\ again.fieldInfo = result.fieldInfo
        /\ schema = UuidLeaf =>
               again.dummyData = Str("00000000-0000-0000-0000-000000000000")

\* C17 witness: the clock moved and another schema was walked between two calls
\* that resolved a reference and returned the same value and descriptor.
C17_Witness ==
    /\ Twice
    /\ result.raised = "none"
    /\ again.env.now > result.env.now
    /\ Len(again.env.log) > 0
    /\ \E e \in Range(again.env.log) : Has(e.fieldInfo, "referenceName")
    /\ again.dummyData = result.dummyData
    /\ again.fieldInfo = result.fieldInfo

\* the uppercase HTTP verbs
HttpVerbs ==
    { <<"G","E","T">>, <<"P","O","S","T">>, <<"P","U","T">>, <<"D","E","L","E","T","E">>,
      <<"P","A","T","C","H">>, <<"H","E","A","D">>, <<"O","P","T","I","O","N","S">>,
      <<"T","R","A","C","E">> }

\* the (path, method) pairs of the document of the call at hand
DocumentPairs ==
    IF Has(document.data, "paths") THEN MethodPairsFrom(document.data.paths, 1) ELSE <<>>

\* C18: the enumerated endpoints are the (path, HTTP-method) pairs of the document,
\* one endpoint per pair; the method of every endpoint and of every emitted template
\* is an uppercase HTTP verb; a key of a path item that is no HTTP method (a
\* path-level parameters list) gives no endpoint.
C18_EndpointsAreMethodPairs ==
    swaggerData # Pending =>
        /\ Len(swaggerData.endpoints) = Len(DocumentPairs)
        /\ \A i \in 1..Len(swaggerData.endpoints) :
               /\ swaggerData.endpoints[i].method \in HttpVerbs
               /\ i <= Len(DocumentPairs) =>
                      swaggerData.endpoints[i].path = DocumentPairs[i][1]
        /\ \A i \in 1..Len(processedEndpoints) : processedEndpoints[i].method \in HttpVerbs

(***************************************************************************)
(* C19: the value and the descriptor of a string node.                     *)
(***************************************************************************)
FixingFormats == {"date-time", "date", "email", "uuid"}

StringRoot == ~IsNull(schema) /\ ~Has(schema, "ref")
              /\ Has(schema, "type") /\ schema.type = "string"

FormatFixes == Has(schema, "format") /\ schema.format \in FixingFormats

\* C19: for a string node a format of date-time, date, email or uuid fixes the
\* value whatever the enum holds; otherwise a non-empty enum gives its first
\* entry; only with no enum or an empty one is the value "dummy_string".  The
\* descriptor records the format ("text" when absent) and the enum unchanged.
C19_StringFormatBeforeEnum ==
    (Returned /\ StringRoot) =>
        /\ FormatFixes =>
              result.dummyData =
                  CASE schema.format = "date-time" -> IsoDateTime(clock)
                    [] schema.format = "date" -> IsoDate(clock)
                    [] schema.format = "email" -> Str("user@example.com")
                    [] schema.format = "uuid" ->
                           Str("00000000-0000-0000-0000-000000000000")
        /\ (~FormatFixes /\ Has(schema, "enum") /\ schema.enum # <<>>) =>
              result.dummyData = Str(Head(schema.enum))
        /\ (result.dummyData = Str("dummy_string")) <=>
              (~FormatFixes /\ (~Has(schema, "enum") \/ schema.enum = <<>>))
        /\ result.fieldInfo.type = "string"
        /\ result.fieldInfo.format =
              (IF Has(schema, "format") THEN schema.format ELSE "text")
        /\ Has(result.fieldInfo, "enum") <=> Has(schema, "enum")
        /\ Has(schema, "enum") => result.fieldInfo.enum = schema.enum

\* a string node whose format fixes the value although its enum has entries
C19_Witness ==
    /\ Returned /\ StringRoot /\ FormatFixes
    /\ Has(schema, "enum") /\ schema.enum # <<>>
    /\ result.dummyData # Str(Head(schema.enum))
    /\ result.fieldInfo.enum = schema.enum

(***************************************************************************)
(* C20: the full path of every processed endpoint.                         *)
(***************************************************************************)
\* the base URL as the resolver with the markers api-docs, swagger and v3 gives it
ResolvedBase == swaggerUtils_extractBaseUrl(request.swaggerUrl)

\* C20: for every endpoint processed by processSwaggerData, full_path is the base
\* URL resolved from the document URL with the markers api-docs, swagger and v3,
\* followed by the composed path of the endpoint; the document URL
\* https://api.example.com/v3/api-docs and the path /users/{id} give
\* https://api.example.com/users/dummy_id.
C20_FullPathFromResolvedBase ==
    pc \in {"loop", "done"} =>
        \A i \in 1..Len(processedEndpoints) :
            processedEndpoints[i].full_path =
                ResolvedBase \o createPathWithParams(swaggerData.endpoints[i].path,
                                                     swaggerData.endpoints[i].parameters)

(***************************************************************************)
(* SpecSave: one call of processSwaggerData in which the save of an        *)
(* endpoint is a request to the database that is issued and settles later. *)
(* saves records, in order, the fetch and every save issued and settled.   *)
(***************************************************************************)
Event(kind, endpoint) == [kind |-> kind, endpoint |-> endpoint]

SaveInit ==
    /\ pc = "fetch"
    /\ clock = 0
    /\ schema = Unused /\ definitions = Unused /\ result = Unused
    /\ segments = Unused /\ pathTemplate = Unused /\ parameters = Unused /\ fullPath = Unused
    /\ UrlUnused /\ SelUnused /\ again = Unused
    /\ request \in Requests
    /\ document \in Documents
    /\ Has(request.swaggerUrl, "invalid") => document.status = "rejected"
    /\ swaggerData = Pending
    /\ baseUrl = <<>>
    /\ processedEndpoints = <<>>
    /\ response = Pending
    /\ database = <<>>
    /\ liveSet = {}
    /\ walks = <<>>
    /\ runs = 1
    /\ saves = <<>>

\* lines 67-69: getSwaggerData resolved
SaveFetchOk ==
    /\ pc = "fetch"
    /\ getSwaggerData(document).raised = "none"
    /\ swaggerData' = getSwaggerData(document).value
    /\ baseUrl' = extractBaseUrl(request.swaggerUrl)
    /\ processedEndpoints' = <<>>
    /\ saves' = Append(saves, Event("fetched", 0))
    /\ pc' = "loop"
    /\ UNCHANGED <<clock, urlVars, selVars, again, walkVars, pathVars, request, document,
                   response, database, liveSet, walks, runs>>

\* lines 67, 125-128: getSwaggerData threw
SaveFetchFail ==
    /\ pc = "fetch"
    /\ getSwaggerData(document).raised # "none"
    /\ response' = ProcessingError
    /\ saves' = Append(saves, Event("fetchFailed", 0))
    /\ pc' = "done"
    /\ UNCHANGED <<clock, urlVars, selVars, again, walkVars, pathVars, request, document,
                   swaggerData, baseUrl, processedEndpoints, database, liveSet, walks, runs>>

LoopRunsOn == pc \in {"loop", "saving"}

\* line 109: the loop body runs only when no save is awaited
SaveSettled == pc = "loop"

\* lines 71-115: one iteration up to the call of databaseService.saveApiEndpoint
SaveIssue ==
    /\ SaveSettled
    /\ Len(processedEndpoints) < Len(swaggerData.endpoints)
    /\ Walked
    /\ saves' = Append(saves,
                       [kind |-> "issue",
                        endpoint |-> Len(processedEndpoints) + 1,
                        data |-> EndpointData(ProcessedEndpoint(Current, baseUrl,
                                                                CurrentBody), request)])
    /\ pc' = "saving"
    /\ UNCHANGED <<clock, urlVars, selVars, again, walkVars, pathVars, request, document,
                   swaggerData, baseUrl, processedEndpoints, response, database, runs>>

\* the save that is in flight: the latest one issued
InFlight ==
    LET p == CHOOSE q \in 1..Len(saves) :
                 /\ saves[q].kind = "issue"
                 /\ \A r \in (q + 1)..Len(saves) : saves[r].kind # "issue"
    IN  saves[p]

\* lines 109-117: the awaited save resolved with the row created
SaveResolve ==
    /\ pc = "saving"
    /\ LET savedEndpoint == saveApiEndpoint(InFlight.data, database)
       IN  /\ database' = Append(database, savedEndpoint)
           /\ processedEndpoints' = Append(processedEndpoints, savedEndpoint)
    /\ saves' = Append(saves, Event("resolve", InFlight.endpoint))
    /\ pc' = "loop"
    /\ UNCHANGED <<clock, urlVars, selVars, again, walkVars, pathVars, request, document,
                   swaggerData, baseUrl, response, liveSet, walks, runs>>

\* lines 109, 125-128: the awaited save rejected
SaveReject ==
    /\ pc = "saving"
    /\ response' = ProcessingError
    /\ saves' = Append(saves, Event("reject", InFlight.endpoint))
    /\ pc' = "done"
    /\ UNCHANGED <<clock, urlVars, selVars, again, walkVars, pathVars, request, document,
                   swaggerData, baseUrl, processedEndpoints, database, liveSet, walks, runs>>

\* lines 120-124: the loop is over
SaveReturn ==
    /\ pc = "loop"
    /\ Len(processedEndpoints) = Len(swaggerData.endpoints)
    /\ response' = [swaggerInfo |-> swaggerData.info,
                    endpointsProcessed |-> Len(processedEndpoints),
                    endpoints |-> processedEndpoints]
    /\ pc' = "done"
    /\ UNCHANGED <<clock, auxVars, walkVars, pathVars, request, document, swaggerData, baseUrl,
                   processedEndpoints, database, liveSet, walks, runs>>

SaveNext ==
    SaveFetchOk \/ SaveFetchFail \/ SaveIssue \/ SaveResolve \/ SaveReject \/ SaveReturn

SpecSave == SaveInit /\ [][SaveNext]_vars

(***************************************************************************)
(* C21: the order of the saves of one call.                                *)
(***************************************************************************)
\* the number of saves issued up to position p of the history
IssuedUpTo(p) == Cardinality({q \in 1..p : saves[q].kind = "issue"})

\* C21: the saves are issued one at a time in the order the endpoints are
\* enumerated, the save of endpoint i+1 only after the save of endpoint i has
\* completed, and none before the fetch succeeded.  If the fetch fails no save is
\* ever issued.  If the k-th save fails the call ends in a terminal failure with
\* exactly k-1 endpoints persisted, no later save and no partial result list.
C21_SavesOneAtATime ==
    \A p \in 1..Len(saves) :
        /\ saves[p].kind = "issue" =>
              LET i == saves[p].endpoint IN
              /\ \E q \in 1..(p - 1) : saves[q].kind = "fetched"
              /\ i = IssuedUpTo(p)
              /\ saves[p].data.method = swaggerData.endpoints[i].method
              /\ saves[p].data.full_path =
                     baseUrl \o createPathWithParams(swaggerData.endpoints[i].path,
                                                     swaggerData.endpoints[i].parameters)
              /\ saves[p - 1] = (IF i = 1 THEN Event("fetched", 0)
                                 ELSE Event("resolve", i - 1))
        /\ saves[p].kind = "resolve" =>
              /\ saves[p - 1].kind = "issue"
              /\ saves[p - 1].endpoint = saves[p].endpoint
              /\ Len(database) >= saves[p].endpoint
        /\ saves[p].kind = "fetchFailed" =>
              /\ Len(saves) = 1
              /\ pc = "done"
              /\ database = <<>>
              /\ response = ProcessingError
        /\ saves[p].kind = "reject" =>
              /\ p = Len(saves)
              /\ saves[p - 1].kind = "issue"
              /\ saves[p - 1].endpoint = saves[p].endpoint
              /\ pc = "done"
              /\ Len(database) = saves[p].endpoint - 1
              /\ Len(processedEndpoints) = saves[p].endpoint - 1
              /\ response = ProcessingError
              /\ ~Has(response, "endpoints")

\* C21 witness: the second save failed after the first had been persisted, and
\* the document has a third endpoint whose save was never issued.
C21_Witness ==
    /\ pc = "done"
    /\ Len(saves) > 0
    /\ saves[Len(saves)] = Event("reject", 2)
    /\ Len(database) = 1
    /\ Len(swaggerData.endpoints) >= 3
    /\ IssuedUpTo(Len(saves)) = 2
====
